---- MODULE Spec2Model ----
(***************************************************************************)
(* A model of hyperv_rs (src/src/lib.rs): the three public operations of   *)
(* Hyperv (get_vms, import_vm, compare_vm), the PowerShell child process   *)
(* they spawn, the stdout pipe between the two, and the pure helpers       *)
(* (VmIncompatibility::from / message_id / message, the line transform of  *)
(* compare_vm, to_string_truncated).                                       *)
(*                                                                         *)
(* Text is modelled as sequences: a line is a sequence of one-character    *)
(* strings, a byte string is a sequence of integers 0..255, decoded text   *)
(* is a sequence of Unicode code points.  The process library              *)
(* (powershell_rs) mirrors std::process: a stream is captured only when    *)
(* it was configured Stdio::piped(), a dropped child is neither killed     *)
(* nor waited for.                                                         *)
(***************************************************************************)
EXTENDS Integers, Sequences, FiniteSets, TLC

VARIABLES
    op,             \* the public operation called: "none" before the call
    path,           \* the Path argument: [is_file, utf8]
    pc,             \* position of the caller inside the operation
    spawnAttempts,  \* number of PsCommand::spawn() calls made by the call
    commands,       \* the command strings handed to PsCommand::new, in order
    stdio,          \* how the spawned command's streams were configured
    proc,           \* the child process: "none", "running", "exited"
    reaped,         \* TRUE once the parent has waited for (joined) the child
    exitCode,       \* the child's exit code once exited: Code(c) or NoCode
    toWrite,        \* number of units the child still has to write to stdout
    written,        \* every unit the child wrote to its stdout so far
    childErr,       \* every byte the child wrote to its stderr
    pipe,           \* the OS pipe buffer of stdout: units written, not yet read
    stdoutOpen,     \* TRUE while the parent holds the read end of the pipe
    buf,            \* what the parent accumulated from stdout so far
    consumed,       \* number of stdout units the parent has taken off the pipe
    snapshot,       \* what spawn_and_wait returned: [tag |-> "none"] until it returns
    result,         \* the operation's return value: [tag |-> "none"] until it returns
    arg,            \* input of the pure-function specification
    ret             \* output of the pure-function specification

vars == <<op, path, pc, spawnAttempts, commands, stdio, proc, reaped, exitCode,
          toWrite, written, childErr, pipe, stdoutOpen, buf, consumed, snapshot,
          result, arg, ret>>

\* the state of the call, of the child process and of the pipe
callVars == <<op, path, spawnAttempts, commands>>
childVars == <<proc, exitCode, toWrite, written, childErr>>
ioVars == <<stdio, pipe, stdoutOpen, buf, consumed, reaped, snapshot>>

-----------------------------------------------------------------------------
(* Bounds of the model *)

\* most units (lines, document tokens, byte blocks) a child writes to stdout
MaxUnits == 3
\* capacity of the OS pipe buffer, in units
PipeCap == 2
\* length of the long byte block a child may write
BigBlockLen == 998

-----------------------------------------------------------------------------
(* Sequence helpers *)

Min(a, b) == IF a < b THEN a ELSE b

\* F(x), with x evaluated once and bound as a value: a let binding
Let(x, F(_)) == CHOOSE r \in {F(v) : v \in {x}} : TRUE

\* s[from..Len(s)], the empty sequence when from > Len(s)
DropTo(s, from) == SubSeq(s, from, Len(s))

\* concatenation of the sequences f[lo], ..., f[hi], by halving
RECURSIVE CatRange(_, _, _)
CatRange(f, lo, hi) ==
    IF lo > hi THEN <<>>
    ELSE IF lo = hi THEN f[lo]
    ELSE Let((lo + hi) \div 2,
             LAMBDA mid : CatRange(f, lo, mid) \o CatRange(f, mid + 1, hi))

Flatten(units) == CatRange(units, 1, Len(units))

-----------------------------------------------------------------------------
(* VmIncompatibility: lib.rs 113-160 *)

\* the enum: six variants carrying the message, Other carrying message and id
Named(v, msg) == [variant |-> v, msg |-> msg]
Other(msg, msg_id) == [variant |-> "Other", msg |-> msg, id |-> msg_id]

\* message_id with the arms of 16350 and 16352 exchanged
message_id_swapped(r) ==
    CASE r.variant = "CannotCreateExternalConfigStore" -> 13000
      [] r.variant = "TooManyCores" -> 14420
      [] r.variant = "CannotChangeCheckpointLocation" -> 16352
      [] r.variant = "CannotChangeSmartPagingStore" -> 16350
      [] r.variant = "CannotRestoreSavedState" -> 25014
      [] r.variant = "MissingSwitch" -> 33012
      [] r.variant = "Other" -> r.id

\* VmIncompatibility::from(msg_id, msg)
from(msg_id, msg) ==
    CASE msg_id = 13000 -> Named("CannotCreateExternalConfigStore", msg)
      [] msg_id = 14420 -> Named("TooManyCores", msg)
      [] msg_id = 16350 -> Named("CannotChangeCheckpointLocation", msg)
      [] msg_id = 16352 -> Named("CannotChangeSmartPagingStore", msg)
      [] msg_id = 25014 -> Named("CannotRestoreSavedState", msg)
      [] msg_id = 33012 -> Named("MissingSwitch", msg)
      [] OTHER -> Other(msg, msg_id)

\* VmIncompatibility::message_id(&self)
message_id(r) ==
    CASE r.variant = "CannotCreateExternalConfigStore" -> 13000
      [] r.variant = "TooManyCores" -> 14420
      [] r.variant = "CannotChangeCheckpointLocation" -> 16350
      [] r.variant = "CannotChangeSmartPagingStore" -> 16352
      [] r.variant = "CannotRestoreSavedState" -> 25014
      [] r.variant = "MissingSwitch" -> 33012
      [] r.variant = "Other" -> r.id

\* VmIncompatibility::message(&self)
message(r) == r.msg

-----------------------------------------------------------------------------
(* The line transform of compare_vm: lib.rs 38-48 *)

Digits == {"0", "1", "2", "3", "4", "5", "6", "7", "8", "9"}

DigitVal(c) ==
    CASE c = "0" -> 0 [] c = "1" -> 1 [] c = "2" -> 2 [] c = "3" -> 3
      [] c = "4" -> 4 [] c = "5" -> 5 [] c = "6" -> 6 [] c = "7" -> 7
      [] c = "8" -> 8 [] c = "9" -> 9

\* char::is_whitespace, on the characters of the model
IsWhitespace(c) == c \in {" ", "\t", "\r", "\n"}

\* the pseudo-character standing for a byte that is not valid UTF-8
BadByte == "xFF"

\* str::trim: drop leading and trailing whitespace
Trim(s) ==
    LET keep == {i \in 1..Len(s) : ~IsWhitespace(s[i])}
    IN  IF keep = {} THEN <<>>
        ELSE LET lo == CHOOSE i \in keep : \A j \in keep : i <= j
                 hi == CHOOSE i \in keep : \A j \in keep : j <= i
             IN  SubSeq(s, lo, hi)

\* position of the first ' ' of s, 0 when there is none
FirstSpace(s) ==
    LET sp == {i \in 1..Len(s) : s[i] = " "}
    IN  IF sp = {} THEN 0 ELSE CHOOSE i \in sp : \A j \in sp : i <= j

\* the magnitude of i64::MAX, and of i64::MIN, as decimal digits
I64MaxDigits == <<9, 2, 2, 3, 3, 7, 2, 0, 3, 6, 8, 5, 4, 7, 7, 5, 8, 0, 7>>
I64MinDigits == <<9, 2, 2, 3, 3, 7, 2, 0, 3, 6, 8, 5, 4, 7, 7, 5, 8, 0, 8>>

\* a <= b for two digit sequences of the same length
DigitsLeq(a, b) ==
    \/ a = b
    \/ \E i \in 1..Len(a) : a[i] < b[i] /\ \A j \in 1..(i - 1) : a[j] = b[j]

\* the digits of ds without their leading zeros
StripZeros(ds) ==
    LET nz == {i \in 1..Len(ds) : ds[i] # 0}
    IN  IF nz = {} THEN <<>>
        ELSE DropTo(ds, CHOOSE i \in nz : \A j \in nz : i <= j)

\* the number with the decimal digits ds, most significant first
Horner(ds) ==
    LET h[i \in 0..Len(ds)] == IF i = 0 THEN 0 ELSE h[i - 1] * 10 + ds[i]
    IN  h[Len(ds)]

\* str::parse::<i64>: an optional sign, then one or more ASCII digits, within
\* the range of i64.  [ok |-> FALSE] for every other token.
\* (Values of 10 to 19 digits are accepted by the code and are outside the
\* integers of the checker; the lines of the model have none.)
ParseI64(tok) ==
    LET signed == tok # <<>> /\ tok[1] \in {"+", "-"}
        neg == tok # <<>> /\ tok[1] = "-"
        body == IF signed THEN Tail(tok) ELSE tok
    IN  IF body = <<>> \/ \E i \in 1..Len(body) : body[i] \notin Digits
        THEN [ok |-> FALSE]
        ELSE Let(StripZeros([i \in 1..Len(body) |-> DigitVal(body[i])]),
                 LAMBDA ds :
                     LET lim == IF neg THEN I64MinDigits ELSE I64MaxDigits
                     IN  IF Len(ds) > Len(lim)
                            \/ (Len(ds) = Len(lim) /\ ~DigitsLeq(ds, lim))
                         THEN [ok |-> FALSE]
                         ELSE [ok |-> TRUE,
                               val |-> IF neg THEN 0 - Horner(ds) ELSE Horner(ds)])

Err(kind) == [tag |-> "Err", kind |-> kind]

\* the reason of a trimmed, non-blank line t
ParseLine(t) ==
    Let(FirstSpace(t),
        LAMBDA sp :
            IF sp = 0 THEN Err("LineParseFailed")
            ELSE Let(ParseI64(SubSeq(t, 1, sp - 1)),
                     LAMBDA msg_id :
                         IF ~msg_id.ok THEN Err("LineParseFailed")
                         ELSE [tag |-> "Ok", some |-> TRUE,
                               val |-> from(msg_id.val, DropTo(t, sp + 1))]))

\* the line transform with the trim left out
TransformNoTrim(line) ==
    IF line = <<>> THEN [tag |-> "Ok", some |-> FALSE] ELSE ParseLine(line)

\* the line transform skipping the lines it cannot parse
TransformLenient(line) ==
    Let(Trim(line),
        LAMBDA t :
            IF t = <<>> THEN [tag |-> "Ok", some |-> FALSE]
            ELSE Let(ParseLine(t),
                     LAMBDA r : IF r.tag = "Err"
                                THEN [tag |-> "Ok", some |-> FALSE] ELSE r))

\* the closure compare_vm passes to map_lines: Ok(None) for a blank line,
\* Ok(Some(reason)) for "<i64> <message>", Err otherwise
Transform(line) ==
    Let(Trim(line),
        LAMBDA t :
            IF t = <<>> THEN [tag |-> "Ok", some |-> FALSE] ELSE ParseLine(t))

\* BufRead::lines on one line of the stream: an io::Error when the line is
\* not valid UTF-8, else the line without its trailing "\r"
ReadLine(raw) ==
    IF \E i \in 1..Len(raw) : raw[i] = BadByte THEN [ok |-> FALSE]
    ELSE [ok |-> TRUE,
          line |-> IF raw # <<>> /\ raw[Len(raw)] = "\r"
                   THEN SubSeq(raw, 1, Len(raw) - 1) ELSE raw]

-----------------------------------------------------------------------------
(* to_string_truncated and the exit-code text: lib.rs 90-95, 180-183 *)

\* the byte budget of spawn_and_wait's diagnostics
TakeBytes == 1000

Replacement == 65533

IsCont(b) == b >= 128 /\ b <= 191

\* the range the second byte of a sequence led by b0 must lie in
SecondOk(b0, b1) ==
    CASE b0 = 224 -> b1 >= 160 /\ b1 <= 191
      [] b0 = 237 -> b1 >= 128 /\ b1 <= 159
      [] b0 = 240 -> b1 >= 144 /\ b1 <= 191
      [] b0 = 244 -> b1 >= 128 /\ b1 <= 143
      [] OTHER -> IsCont(b1)

\* length of the UTF-8 sequence a lead byte announces, 0 for a byte that
\* cannot lead one
Width(b0) ==
    IF b0 < 128 THEN 1
    ELSE IF b0 >= 194 /\ b0 <= 223 THEN 2
    ELSE IF b0 >= 224 /\ b0 <= 239 THEN 3
    ELSE IF b0 >= 240 /\ b0 <= 244 THEN 4
    ELSE 0

\* the chunk from_utf8_lossy reads at position i: the number of bytes it
\* takes and the code point it writes (U+FFFD for the longest invalid prefix)
ChunkAt(b, i) ==
    LET n == Len(b)
        w == Width(b[i])
        has(k) == i + k <= n
        c1 == has(1) /\ SecondOk(b[i], b[i + 1])
        c2 == c1 /\ has(2) /\ IsCont(b[i + 2])
        c3 == c2 /\ has(3) /\ IsCont(b[i + 3])
    IN  CASE w = 0 -> [len |-> 1, cp |-> Replacement]
          [] w = 1 -> [len |-> 1, cp |-> b[i]]
          [] w = 2 -> IF c1 THEN [len |-> 2, cp |-> (b[i] - 192) * 64 + (b[i + 1] - 128)]
                      ELSE [len |-> 1, cp |-> Replacement]
          [] w = 3 -> IF c2 THEN [len |-> 3,
                                  cp |-> (b[i] - 224) * 4096 + (b[i + 1] - 128) * 64
                                         + (b[i + 2] - 128)]
                      ELSE [len |-> IF c1 THEN 2 ELSE 1, cp |-> Replacement]
          [] w = 4 -> IF c3 THEN [len |-> 4,
                                  cp |-> (b[i] - 240) * 262144 + (b[i + 1] - 128) * 4096
                                         + (b[i + 2] - 128) * 64 + (b[i + 3] - 128)]
                      ELSE [len |-> IF c2 THEN 3 ELSE IF c1 THEN 2 ELSE 1,
                            cp |-> Replacement]

\* whether the decoder starts a chunk at i.  Only continuation bytes are
\* ever taken as the second to fourth byte of a chunk, so a byte that is not
\* one always starts a chunk, and a continuation byte starts one unless the
\* chunk of the nearest non-continuation byte before it reaches it.
StartsChunk(b, i) ==
    IF ~IsCont(b[i]) THEN TRUE
    ELSE LET leads == {j \in 1..(i - 1) : i - j <= 3 /\ ~IsCont(b[j])}
         IN  IF leads = {} THEN TRUE
             ELSE LET j == CHOOSE k \in leads : \A l \in leads : l <= k
                  IN  j + ChunkAt(b, j).len <= i

\* String::from_utf8_lossy: the code points of the chunks, in order
FromUtf8Lossy(b) ==
    CatRange([i \in 1..Len(b) |->
                 IF StartsChunk(b, i) THEN <<ChunkAt(b, i).cp>> ELSE <<>>],
             1, Len(b))

\* to_string_truncated with the budget off by one
to_string_truncated_short(bytes, take) ==
    FromUtf8Lossy(SubSeq(bytes, 1, Min(Len(bytes), take - 1)))

\* to_string_truncated(bytes, take)
to_string_truncated(bytes, take) ==
    LET len == Min(Len(bytes), take)
    IN  FromUtf8Lossy(SubSeq(bytes, 1, len))

\* "<empty>" and "<none>", as code points and as characters
EmptySentinel == <<60, 101, 109, 112, 116, 121, 62>>
NoneSentinel == <<"<", "n", "o", "n", "e", ">">>

\* handle_blank(s)
handle_blank(s) == IF s # <<>> THEN s ELSE EmptySentinel

DigitChar(d) ==
    CASE d = 0 -> "0" [] d = 1 -> "1" [] d = 2 -> "2" [] d = 3 -> "3"
      [] d = 4 -> "4" [] d = 5 -> "5" [] d = 6 -> "6" [] d = 7 -> "7"
      [] d = 8 -> "8" [] d = 9 -> "9"

RECURSIVE NatToString(_)
NatToString(n) ==
    IF n < 10 THEN <<DigitChar(n)>>
    ELSE Append(NatToString(n \div 10), DigitChar(n % 10))

\* i32::to_string
IntToString(n) == IF n < 0 THEN <<"-">> \o NatToString(0 - n) ELSE NatToString(n)

\* Option<i32>, the value of ExitStatus::code
Code(c) == [some |-> TRUE, val |-> c]
NoCode == [some |-> FALSE]

\* output.status.code().map(|c| c.to_string()).unwrap_or_else(|| "<none>")
ExitCodeStr(code) == IF code.some THEN IntToString(code.val) ELSE NoneSentinel

\* ExitStatus::success
Success(code) == code.some /\ code.val = 0

-----------------------------------------------------------------------------
(* What a child process may write *)

\* lines of the comparison command's stdout: well-formed, blank and malformed
LineA == <<"1", "3", "0", "0", "0", " ", "A">>
LineB == <<"1", "6", "3", "5", "0", " ", "B", " ", "b">>
LineEmpty == <<>>
LineBlank == <<" ", "\t", "\r">>
LinePadded == <<" ", "3", "3", "0", "1", "2", " ", " ", "C", " ", "\r">>
LineOther == <<"-", "7", " ", "D">>
LineNoSpace == <<"1", "3", "0", "0", "0">>
LineNotNumeric == <<"a", "b", "c", " ", "M">>
LineOverflow == <<"9", "2", "2", "3", "3", "7", "2", "0", "3", "6", "8", "5", "4",
                  "7", "7", "5", "8", "0", "8", " ", "F">>
LineNotUtf8 == <<"1", " ", BadByte>>

LinePool == {LineA, LineB, LineEmpty, LineBlank, LinePadded, LineOther,
             LineNoSpace, LineNotNumeric, LineOverflow, LineNotUtf8}

\* tokens of the listing command's document: a record, or text that is no JSON
DocPool == {"record", "junk"}

\* blocks of bytes: a long run of ASCII, a letter, a two-byte character, a
\* byte that is not UTF-8
BigBlock == [i \in 1..BigBlockLen |-> 97 + (i % 26)]
BlockPool == {BigBlock, <<65>>, <<195, 169>>, <<255>>}

UnitPool(o) ==
    CASE o = "get_vms" -> DocPool
      [] o = "compare_vm" -> LinePool
      [] o = "import_vm" -> BlockPool
      [] OTHER -> {}

\* what a child may write to stderr, and how it may exit: with a code, or
\* (NoCode) ended by a signal.  The streamed operations read neither, so
\* their children vary less.
ErrPool(o) == IF o = "import_vm" THEN {<<>>, <<98, 111, 111, 109>>} ELSE {<<>>}
ExitPool(o) ==
    IF o = "import_vm" THEN {Code(0), Code(1), Code(-1), NoCode} ELSE {Code(0), Code(1)}

Paths == [is_file : BOOLEAN, utf8 : BOOLEAN]
NoPath == [is_file |-> FALSE, utf8 |-> FALSE]

-----------------------------------------------------------------------------
(* The operations of Hyperv: lib.rs 13-100 *)

Streamed == {"get_vms", "compare_vm"}
PathOps == {"import_vm", "compare_vm"}

Ok(v) == [tag |-> "Ok", val |-> v]
NotYet == [tag |-> "none"]

\* the command string each operation builds (lib.rs 15, 26, 32-35)
Command(o, p) ==
    CASE o = "get_vms" -> [cmd |-> "get-vm|select-object -property Id,Name |convertto-json"]
      [] o = "import_vm" -> [cmd |-> "import-vm -Path", path |-> p]
      [] o = "compare_vm" -> [cmd |-> "compare-vm -Path", path |-> p]

\* validate_file_path accepting every path
validate_file_path_unchecked(p) == Ok(p)

\* validate_file_path(path)
validate_file_path(p) ==
    IF ~p.is_file THEN Err("InvalidPath")
    ELSE IF ~p.utf8 THEN Err("InvalidPath")
    ELSE Ok(p)

\* the streams PsCommand is configured with before spawn()
SpawnStdio == [stdout |-> "piped", stderr |-> "inherit"]

\* where a failed spawn leads, were it tried again
AfterSpawnErrorRetry == "spawn"

\* where a failed spawn leads: map_err and ? return the error
AfterSpawnError == "returned"

\* the step after spawn, were a streamed operation to wait for exit first
AfterSpawnWaitFirst(o) == IF o = "import_vm" THEN "drain" ELSE "wait"

\* the step after spawn: wait_with_output for import_vm, process.stdout()
\* for the streamed operations
AfterSpawn(o) == IF o = "import_vm" THEN "drain" ELSE "take_stdout"

\* the bytes Output holds for a stream: those written, if it was piped
Captured(cfg, bytes) == IF cfg = "piped" THEN bytes ELSE <<>>

\* the error spawn_and_wait builds from an unsuccessful Output
NonZeroExit(output) ==
    [tag |-> "Err", kind |-> "NonZeroExit",
     exit_code_str |-> ExitCodeStr(output.status),
     stdout |-> handle_blank(to_string_truncated(output.stdout, TakeBytes)),
     stderr |-> handle_blank(to_string_truncated(output.stderr, TakeBytes))]

\* the tail of spawn_and_wait: the status check on the Output
CheckOutput(output) ==
    IF ~Success(output.status) THEN NonZeroExit(output) ELSE Ok(output)

\* the operation returns r: its locals (the PsProcess, the stdout handle) are
\* dropped, which closes the handles and neither kills nor joins the child
Return(r) ==
    /\ result' = r
    /\ pc' = "returned"
    /\ stdoutOpen' = FALSE

get_vms ==
    /\ pc = "idle"
    /\ op' = "get_vms"
    /\ pc' = "spawn"
    /\ UNCHANGED <<path, spawnAttempts, commands, childVars, ioVars, result, arg, ret>>

import_vm(p) ==
    /\ pc = "idle"
    /\ op' = "import_vm"
    /\ path' = p
    /\ pc' = "validate"
    /\ UNCHANGED <<spawnAttempts, commands, childVars, ioVars, result, arg, ret>>

compare_vm(p) ==
    /\ pc = "idle"
    /\ op' = "compare_vm"
    /\ path' = p
    /\ pc' = "validate"
    /\ UNCHANGED <<spawnAttempts, commands, childVars, ioVars, result, arg, ret>>

\* let path = Self::validate_file_path(path.as_ref())?;
Validate ==
    /\ pc = "validate"
    /\ LET v == validate_file_path(path)
       IN  IF v.tag = "Err"
           THEN Return(v)
           ELSE pc' = "spawn" /\ UNCHANGED <<result, stdoutOpen>>
    /\ UNCHANGED <<callVars, childVars, stdio, pipe, buf, consumed, reaped,
                   snapshot, arg, ret>>

\* Self::spawn(command): the process is created
SpawnOk ==
    /\ pc = "spawn"
    /\ spawnAttempts' = spawnAttempts + 1
    /\ commands' = Append(commands, Command(op, path))
    /\ stdio' = SpawnStdio
    /\ proc' = "running"
    /\ \E n \in 0..MaxUnits : toWrite' = n
    /\ stdoutOpen' = (SpawnStdio.stdout = "piped")
    /\ pc' = AfterSpawn(op)
    /\ UNCHANGED <<op, path, exitCode, written, childErr, pipe, buf, consumed,
                   reaped, snapshot, result, arg, ret>>

\* Self::spawn(command): the process could not be created
SpawnFailed ==
    /\ pc = "spawn"
    /\ spawnAttempts' = spawnAttempts + 1
    /\ commands' = Append(commands, Command(op, path))
    /\ result' = Err("SpawnFailed")
    /\ snapshot' = IF op = "import_vm" THEN Err("SpawnFailed") ELSE snapshot
    /\ pc' = AfterSpawnError
    /\ UNCHANGED <<op, path, childVars, stdio, pipe, stdoutOpen, buf, consumed,
                   reaped, arg, ret>>

\* process.stdout().ok_or_else(..)?
TakeStdout ==
    /\ pc = "take_stdout"
    /\ IF stdio.stdout = "piped" /\ stdoutOpen
       THEN pc' = "read" /\ UNCHANGED <<result, stdoutOpen>>
       ELSE Return(Err("PipeUnavailable"))
    /\ UNCHANGED <<callVars, childVars, stdio, pipe, buf, consumed, reaped,
                   snapshot, arg, ret>>

\* serde_json::from_reader(stdout): one more token of the document
DecodeToken ==
    /\ pc = "read" /\ op = "get_vms"
    /\ pipe # <<>>
    /\ pipe' = Tail(pipe)
    /\ consumed' = consumed + 1
    /\ IF Head(pipe) = "record"
       THEN buf' = Append(buf, Head(pipe)) /\ UNCHANGED <<pc, result, stdoutOpen>>
       ELSE Return(Err("DecodeFailed")) /\ UNCHANGED buf
    /\ UNCHANGED <<callVars, childVars, stdio, reaped, snapshot, arg, ret>>

\* serde_json::from_reader(stdout): end of input, Ok(vms)
DecodeEof ==
    /\ pc = "read" /\ op = "get_vms"
    /\ pipe = <<>> /\ proc = "exited"
    /\ Return(Ok(buf))
    /\ UNCHANGED <<callVars, childVars, stdio, pipe, buf, consumed, reaped,
                   snapshot, arg, ret>>

\* one turn of the loop of map_lines over BufReader::new(stdout).lines()
MapLine ==
    /\ pc = "read" /\ op = "compare_vm"
    /\ pipe # <<>>
    /\ pipe' = Tail(pipe)
    /\ consumed' = consumed + 1
    /\ \E line \in {ReadLine(Head(pipe))} :
           IF ~line.ok
           THEN Return(Err("LineReadFailed")) /\ UNCHANGED buf
           ELSE \E t \in {Transform(line.line)} :
                    IF t.tag = "Err"
                    THEN Return(t) /\ UNCHANGED buf
                    ELSE /\ buf' = IF t.some THEN Append(buf, t.val) ELSE buf
                         /\ UNCHANGED <<pc, result, stdoutOpen>>
    /\ UNCHANGED <<callVars, childVars, stdio, reaped, snapshot, arg, ret>>

\* map_lines: the lines are exhausted, Ok(vec)
MapLinesEof ==
    /\ pc = "read" /\ op = "compare_vm"
    /\ pipe = <<>> /\ proc = "exited"
    /\ Return(Ok(buf))
    /\ UNCHANGED <<callVars, childVars, stdio, pipe, buf, consumed, reaped,
                   snapshot, arg, ret>>

\* wait_with_output: read one more block of the piped stdout
Drain ==
    /\ pc = "drain"
    /\ pipe # <<>>
    /\ pipe' = Tail(pipe)
    /\ consumed' = consumed + 1
    /\ buf' = buf \o Head(pipe)
    /\ UNCHANGED <<callVars, childVars, stdio, stdoutOpen, reaped, snapshot,
                   result, pc, arg, ret>>

\* wait_with_output: stdout is at end of input, go on to wait for the exit
DrainEof ==
    /\ pc = "drain"
    /\ pipe = <<>> /\ proc = "exited"
    /\ pc' = "wait"
    /\ UNCHANGED <<callVars, childVars, ioVars, result, arg, ret>>

\* the wait for the child's exit succeeds: the child is joined
WaitOk ==
    /\ pc = "wait"
    /\ proc = "exited"
    /\ reaped' = TRUE
    /\ pc' = "check_status"
    /\ UNCHANGED <<callVars, childVars, stdio, pipe, stdoutOpen, buf, consumed,
                   snapshot, result, arg, ret>>

\* the wait fails with an OS error, which map_err and ? return
WaitFailed ==
    /\ pc = "wait"
    /\ snapshot' = IF op = "import_vm" THEN Err("WaitFailed") ELSE snapshot
    /\ Return(Err("WaitFailed"))
    /\ UNCHANGED <<callVars, childVars, stdio, pipe, buf, consumed, reaped, arg, ret>>

\* spawn_and_wait checks the status; import_vm returns Ok(()) or the error
CheckStatus ==
    /\ pc = "check_status"
    /\ LET output == [status |-> exitCode,
                      stdout |-> Captured(stdio.stdout, buf),
                      stderr |-> Captured(stdio.stderr, childErr)]
           r == CheckOutput(output)
       IN  /\ snapshot' = r
           /\ Return(IF r.tag = "Ok" THEN Ok("unit") ELSE r)
    /\ UNCHANGED <<callVars, childVars, stdio, pipe, buf, consumed, reaped, arg, ret>>

-----------------------------------------------------------------------------
(* The child process and the pipe *)

\* the child has output left and the pipe buffer is full
ChildBlockedOnWrite ==
    proc = "running" /\ toWrite > 0 /\ stdoutOpen /\ Len(pipe) >= PipeCap

\* the child writes one unit to its stdout
ChildWrite(u) ==
    /\ proc = "running"
    /\ toWrite > 0
    /\ stdoutOpen
    /\ Len(pipe) < PipeCap
    /\ pipe' = Append(pipe, u)
    /\ written' = Append(written, u)
    /\ toWrite' = toWrite - 1
    /\ UNCHANGED <<callVars, pc, proc, exitCode, childErr, stdio, stdoutOpen, buf,
                   consumed, reaped, snapshot, result, arg, ret>>

\* the child exits, having written all it had to or finding its stdout closed
ChildExit(code, err) ==
    /\ proc = "running"
    /\ toWrite = 0 \/ ~stdoutOpen
    /\ proc' = "exited"
    /\ exitCode' = code
    /\ childErr' = err
    /\ UNCHANGED <<callVars, pc, toWrite, written, ioVars, result, arg, ret>>

\* the steps of the streamed operations, get_vms and compare_vm
StreamedStep ==
    \/ get_vms
    \/ \E p \in Paths : compare_vm(p)
    \/ Validate
    \/ SpawnOk
    \/ SpawnFailed
    \/ TakeStdout
    \/ DecodeToken
    \/ DecodeEof
    \/ MapLine
    \/ MapLinesEof

\* the steps of import_vm alone
BufferedStep ==
    \/ \E p \in Paths : import_vm(p)
    \/ Drain
    \/ DrainEof
    \/ WaitOk
    \/ WaitFailed
    \/ CheckStatus

ChildStep ==
    \/ \E u \in UnitPool(op) : ChildWrite(u)
    \/ \E code \in ExitPool(op), err \in ErrPool(op) : ChildExit(code, err)

\* the state before any call
InitCall ==
    /\ op = "none"
    /\ path = NoPath
    /\ pc = "idle"
    /\ spawnAttempts = 0
    /\ commands = <<>>
    /\ stdio = [stdout |-> "none", stderr |-> "none"]
    /\ proc = "none"
    /\ reaped = FALSE
    /\ exitCode = NoCode
    /\ toWrite = 0
    /\ written = <<>>
    /\ childErr = <<>>
    /\ pipe = <<>>
    /\ stdoutOpen = FALSE
    /\ buf = <<>>
    /\ consumed = 0
    /\ snapshot = NotYet
    /\ result = NotYet

NoArg == [stage |-> "none"]

Init == InitCall /\ arg = NoArg /\ ret = NoArg

Next == StreamedStep \/ BufferedStep \/ ChildStep

Spec == Init /\ [][Next]_vars

\* get_vms and compare_vm alone, where the caller runs whenever it can and
\* the child writes and exits whenever it can
StreamedNext == StreamedStep \/ ChildStep

StreamedSpec ==
    Init /\ [][StreamedNext]_vars /\ WF_vars(StreamedStep) /\ WF_vars(ChildStep)

-----------------------------------------------------------------------------
(* VmIncompatibility on its own: from, then message_id and message *)

CodeSamples == {13000, 14420, 16350, 16352, 25014, 33012,
                0, 1, -1, 12999, 13001, 16351, 16353, 33013,
                2147483647, -2147483647}
MsgSamples == {<<>>, <<"A">>, <<"B", " ", "b">>, <<" ", "C">>}

InitMapper ==
    /\ InitCall
    /\ \E c \in CodeSamples, m \in MsgSamples : arg = [stage |-> "given", code |-> c, msg |-> m]
    /\ ret = NoArg

\* let r = VmIncompatibility::from(code, msg)
Classify ==
    /\ ret.stage = "none"
    /\ ret' = [stage |-> "made", reason |-> from(arg.code, arg.msg)]
    /\ UNCHANGED <<callVars, pc, childVars, ioVars, result, arg>>

\* r.message_id() and r.message()
ReadBack ==
    /\ ret.stage = "made"
    /\ ret' = [stage |-> "read", reason |-> ret.reason,
               message_id |-> message_id(ret.reason),
               message |-> message(ret.reason)]
    /\ UNCHANGED <<callVars, pc, childVars, ioVars, result, arg>>

NextMapper == Classify \/ ReadBack

MapperSpec == InitMapper /\ [][NextMapper]_vars

-----------------------------------------------------------------------------
(* The claims *)

\* the table of the six known codes
VariantTable ==
    {<<13000, "CannotCreateExternalConfigStore">>,
     <<14420, "TooManyCores">>,
     <<16350, "CannotChangeCheckpointLocation">>,
     <<16352, "CannotChangeSmartPagingStore">>,
     <<25014, "CannotRestoreSavedState">>,
     <<33012, "MissingSwitch">>}

\* C1: from(c, m) is the table's variant for the six known codes and Other
\* carrying m and c for every other code; message_id() of it returns c and
\* message() returns m, so code -> variant -> code is the identity.
TheoremC1 ==
    ret.stage = "read" =>
        /\ \A e \in VariantTable :
               arg.code = e[1] => ret.reason = [variant |-> e[2], msg |-> arg.msg]
        /\ (\A e \in VariantTable : arg.code # e[1]) =>
               ret.reason = [variant |-> "Other", msg |-> arg.msg, id |-> arg.code]
        /\ ret.message_id = arg.code
        /\ ret.message = arg.msg

WitnessC1 ==
    /\ ret.stage = "read"
    /\ arg.code = 16352
    /\ ret.reason.variant = "CannotChangeSmartPagingStore"
    /\ ret.message_id = 16352

\* a line with nothing but whitespace
IsBlankLine(l) == \A i \in 1..Len(l) : IsWhitespace(l[i])

\* a line that is valid UTF-8
Readable(l) == \A i \in 1..Len(l) : l[i] # BadByte

\* the first token of the trimmed line, and what follows its first space
CodeToken(l) ==
    LET t == Trim(l) IN SubSeq(t, 1, FirstSpace(t) - 1)
MessageText(l) ==
    LET t == Trim(l) IN SubSeq(t, FirstSpace(t) + 1, Len(t))

\* a non-blank line of the form "<i64> <message>"
WellFormed(l) ==
    /\ Readable(l) /\ ~IsBlankLine(l)
    /\ FirstSpace(Trim(l)) > 0
    /\ ParseI64(CodeToken(l)).ok

\* a non-blank line with no space, or whose first token is no i64
Malformed(l) ==
    /\ Readable(l) /\ ~IsBlankLine(l)
    /\ FirstSpace(Trim(l)) = 0 \/ ~ParseI64(CodeToken(l)).ok

\* the reasons of the non-blank lines, in line order
ExpectedReasons(lines) ==
    CatRange([i \in 1..Len(lines) |->
                 IF IsBlankLine(lines[i]) THEN <<>>
                 ELSE <<from(ParseI64(CodeToken(lines[i])).val, MessageText(lines[i]))>>],
             1, Len(lines))

CompareReturned == pc = "returned" /\ op = "compare_vm" /\ proc # "none"

\* C2: when every non-blank stdout line is well formed, compare_vm returns Ok
\* with one reason per non-blank line, in line order; blank lines contribute
\* nothing, the message is what follows the first space of the trimmed line,
\* and no non-blank line gives Ok of the empty sequence.
TheoremC2 ==
    (/\ CompareReturned
     /\ \A i \in 1..Len(written) :
            Readable(written[i]) /\ (IsBlankLine(written[i]) \/ WellFormed(written[i])))
    => /\ result = Ok(ExpectedReasons(written))
       /\ Len(result.val) = Cardinality({i \in 1..Len(written) : ~IsBlankLine(written[i])})
       /\ written = <<LineA, LineEmpty, LineB>> =>
              result.val = <<[variant |-> "CannotCreateExternalConfigStore", msg |-> <<"A">>],
                             [variant |-> "CannotChangeCheckpointLocation",
                              msg |-> <<"B", " ", "b">>]>>
       /\ written = <<LinePadded>> =>
              result.val = <<[variant |-> "MissingSwitch", msg |-> <<" ", "C">>]>>

WitnessC2 ==
    /\ CompareReturned
    /\ written = <<LineA, LineEmpty, LinePadded>>
    /\ result.tag = "Ok"
    /\ Len(result.val) = 2

\* the first line of the stream that cannot be read or parsed, 0 if none
FirstBadLine(lines) ==
    LET bad == {i \in 1..Len(lines) : ~Readable(lines[i]) \/ Malformed(lines[i])}
    IN  IF bad = {} THEN 0 ELSE CHOOSE i \in bad : \A j \in bad : i <= j

\* C3: when a non-blank stdout line has no space or a first token that is
\* no i64, compare_vm returns Err at the first such line: the error carries
\* no reasons and no later line is taken off the stream.
TheoremC3 ==
    (CompareReturned /\ \E i \in 1..Len(written) : Malformed(written[i]))
    => /\ result.tag = "Err"
       /\ "val" \notin DOMAIN result
       /\ consumed = FirstBadLine(written)
       /\ Malformed(written[consumed]) => result.kind = "LineParseFailed"

WitnessC3 ==
    /\ CompareReturned
    /\ Len(written) = 3
    /\ written[1] = LineA
    /\ written[2] \in {LineNoSpace, LineNotNumeric}
    /\ consumed = 2
    /\ result.tag = "Err"

ValidPath(p) == p.is_file /\ p.utf8

\* C4: import_vm and compare_vm validate the path before any spawn: with a
\* path that is no regular file or no text the call returns InvalidPath and
\* no process is ever spawned; a spawn happens only after validation passed.
TheoremC4 ==
    op \in PathOps =>
        /\ ~ValidPath(path) =>
               /\ spawnAttempts = 0 /\ proc = "none" /\ commands = <<>>
               /\ pc = "returned" => result = [tag |-> "Err", kind |-> "InvalidPath"]
        /\ (spawnAttempts > 0 \/ proc # "none") => ValidPath(path)

WitnessC4 ==
    /\ op = "import_vm"
    /\ pc = "returned"
    /\ ~path.is_file
    /\ result.tag = "Err" /\ result.kind = "InvalidPath"
    /\ spawnAttempts = 0

\* the first min(len, 1000) bytes
FirstBytes(b) == [i \in 1..Min(Len(b), 1000) |-> b[i]]

\* the diagnostic text of a captured stream
Rendered(b) == IF b = <<>> THEN EmptySentinel ELSE FromUtf8Lossy(FirstBytes(b))

\* import_vm has returned after a wait that succeeded
ImportJoined == op = "import_vm" /\ pc = "returned" /\ reaped

\* C5: after an unsuccessful exit import_vm returns NonZeroExit with the exit
\* code in decimal or "<none>", and stdout and stderr each rendered as the
\* lossy decoding of the first min(len, 1000) captured bytes, or "<empty>"
\* when the captured bytes are empty; building it never fails.
TheoremC5 ==
    (ImportJoined /\ ~Success(exitCode))
    => /\ result.tag = "Err" /\ result.kind = "NonZeroExit"
       /\ IF exitCode.some
          THEN ParseI64(result.exit_code_str) = [ok |-> TRUE, val |-> exitCode.val]
          ELSE result.exit_code_str = <<"<", "n", "o", "n", "e", ">">>
       /\ result.stdout = Rendered(Flatten(written))
       /\ Len(result.stdout) <= 1000
       /\ (Flatten(written) # <<>>
           /\ \A i \in 1..Min(Len(Flatten(written)), 1000) : Flatten(written)[i] < 128)
          => result.stdout = SubSeq(Flatten(written), 1, Min(Len(Flatten(written)), 1000))
       /\ result.stderr = Rendered(Captured(stdio.stderr, childErr))

WitnessC5 ==
    /\ ImportJoined
    /\ result.tag = "Err" /\ result.kind = "NonZeroExit"
    /\ Len(Flatten(written)) > 1000
    /\ Len(result.stdout) = 1000
    /\ ~exitCode.some

\* C6: spawn_and_wait returns Ok exactly when the process was spawned, the
\* wait succeeded and the status is success; the snapshot then holds the
\* process's stdout and stderr bytes whole, and import_vm returns Ok(()).
ClaimC6 ==
    (op = "import_vm" /\ pc = "returned")
    => /\ (snapshot.tag = "Ok") <=> (proc # "none" /\ reaped /\ Success(exitCode))
       /\ snapshot.tag = "Ok" =>
              /\ snapshot.val.stdout = Flatten(written)
              /\ snapshot.val.stderr = childErr
              /\ result = Ok("unit")

\* C7: on every exit path of every operation the spawned process has been
\* waited for and its pipe handles are closed when the operation returns.
ClaimC7 ==
    (pc = "returned" /\ proc # "none") => (reaped /\ ~stdoutOpen)

\* C8: import_vm's process is launched with stdout and stderr both piped, so
\* the snapshot's stderr and the NonZeroExit error hold what the process
\* wrote to stderr.
ClaimC8 ==
    (op = "import_vm" /\ proc # "none")
    => /\ stdio.stdout = "piped" /\ stdio.stderr = "piped"
       /\ snapshot.tag = "Ok" => snapshot.val.stderr = childErr
       /\ (snapshot.tag = "Err" /\ snapshot.kind = "NonZeroExit") =>
              snapshot.stderr = Rendered(childErr)

\* the parent waits for the exit of a child that is still running
ParentBlockedOnExit == pc = "wait" /\ proc = "running"

\* a streamed operation has spawned its process and has not returned
StreamedRunning == op \in Streamed /\ proc # "none" /\ pc # "returned"

\* C9: a streamed operation never waits for the child's exit while the
\* child is blocked writing to a full pipe, and when the child writes all
\* its output and exits the operation returns.
TheoremC9 ==
    /\ [](op \in Streamed => ~(ParentBlockedOnExit /\ ChildBlockedOnWrite))
    /\ StreamedRunning ~> (pc = "returned")

WitnessC9 ==
    /\ op \in Streamed
    /\ pc = "read"
    /\ ChildBlockedOnWrite
    /\ Len(written) >= PipeCap

\* C10: a call spawns at most once, with one command string; get_vms and a
\* call whose path passed validation have spawned exactly once when they
\* return, also when the spawn or the command failed.
TheoremC10 ==
    /\ spawnAttempts <= 1
    /\ Len(commands) = spawnAttempts
    /\ pc = "returned" =>
           spawnAttempts = (IF op = "get_vms" \/ ValidPath(path) THEN 1 ELSE 0)
    /\ commands # <<>> =>
           commands[1].cmd = (CASE op = "get_vms" ->
                                     "get-vm|select-object -property Id,Name |convertto-json"
                                [] op = "import_vm" -> "import-vm -Path"
                                [] op = "compare_vm" -> "compare-vm -Path")

WitnessC10 ==
    /\ pc = "returned"
    /\ op = "compare_vm"
    /\ spawnAttempts = 1
    /\ result.tag = "Err" /\ result.kind = "SpawnFailed"

====
